---------------------------- MODULE Spec2Model ----------------------------
(***************************************************************************)
(* RAID-X risk-scoring pipeline: the orchestrator Lambda, the Step          *)
(* Functions state machine (DataIngestion -> Parallel(R3, ARSM) -> TAD-X    *)
(* -> Succeed) and the four stage handlers.                                 *)
(*                                                                          *)
(* Representation.  Python dicts are functions on string keys; a missing    *)
(* key is a key outside DOMAIN.  Python strings that the code inspects      *)
(* (addresses) are tuples of one-character strings, so strip(), lower(),    *)
(* len() and substring search are computed.  Floats are exact fixed-point   *)
(* integers: a score s is the integer s * Scale, an amount a is the         *)
(* integer a * AmountScale.  An exception is a record with raised = TRUE.   *)
(***************************************************************************)
EXTENDS Integers, Sequences, FiniteSets, TLC

VARIABLES
    now,            \* int(time.time()) as the orchestrator reads it
    executions,     \* Step Functions executions, in the order they were started
    responses,      \* API responses returned by the orchestrator, in order
    uuids,          \* number of uuid4() values drawn so far
    results_table,  \* DynamoDB results table: items put by TAD-X
    call            \* the direct stage invocation (stage-level specification)

vars == << now, executions, responses, uuids, results_table, call >>

---------------------------------------------------------------------------
(* Fixed-point units *)

\* 1.0 as a float: scores, weights and feature values are multiples of 1/60000
Scale == 6 * 10000
\* 1.0 as an amount (amounts are multiples of 0.01)
AmountScale == 10 * 10

\* the score n/d
Frac(n, d) == (n * Scale) \div d

Min2(a, b) == IF a <= b THEN a ELSE b
Max2(a, b) == IF a >= b THEN a ELSE b
Abs(a) == IF a < 0 THEN -a ELSE a

RECURSIVE GCD(_, _)
GCD(a, b) == IF b = 0 THEN a ELSE GCD(b, a % b)

\* the float a/q, for integers a and q > 0
Ratio(a, q) == (a * (Scale \div GCD(Scale, q))) \div (q \div GCD(Scale, q))

\* float(d.get('amount', 0)) raises ValueError unless the amount is a number;
\* an amount that is a text is kept under the key "amount_text", so that
\* every value under "amount" is a number
is_number(d) == "amount_text" \notin DOMAIN d

---------------------------------------------------------------------------
(* Python dict and exception helpers *)

EmptyDict == << >>
EmptyStr == << >>

\* dict.get(key, default)
Get(d, k, default) == IF k \in DOMAIN d THEN d[k] ELSE default

\* d | {k: v}
Put(d, k, v) == [x \in DOMAIN d \cup {k} |-> IF x = k THEN v ELSE d[x]]

Raise(e) == [raised |-> TRUE, error |-> e]
Return(v) == [raised |-> FALSE, value |-> v]

RECURSIVE SumSeq(_)
SumSeq(s) == IF s = << >> THEN 0 ELSE Head(s) + SumSeq(Tail(s))

InList(x, list) == \E i \in 1..Len(list) : list[i] = x

---------------------------------------------------------------------------
(* Strings as character tuples *)

UpperCase ==
    << "A", "B", "C", "D", "E", "F", "G", "H", "I", "J", "K", "L", "M",
       "N", "O", "P", "Q", "R", "S", "T", "U", "V", "W", "X", "Y", "Z" >>
LowerCase ==
    << "a", "b", "c", "d", "e", "f", "g", "h", "i", "j", "k", "l", "m",
       "n", "o", "p", "q", "r", "s", "t", "u", "v", "w", "x", "y", "z" >>

\* str.lower()
lower(s) ==
    [i \in 1..Len(s) |->
        IF \E j \in 1..26 : UpperCase[j] = s[i]
        THEN LowerCase[CHOOSE j \in 1..26 : UpperCase[j] = s[i]]
        ELSE s[i]]

\* str.strip()
RECURSIVE lstrip(_)
lstrip(s) == IF s # << >> /\ Head(s) = " " THEN lstrip(Tail(s)) ELSE s
RECURSIVE rstrip(_)
rstrip(s) ==
    IF s # << >> /\ s[Len(s)] = " " THEN rstrip(SubSeq(s, 1, Len(s) - 1)) ELSE s
strip(s) == rstrip(lstrip(s))

\* pattern in s
Contains(pattern, s) ==
    \E i \in 1..(Len(s) - Len(pattern) + 1) :
        SubSeq(s, i, i + Len(pattern) - 1) = pattern

\* "1A1zP1eP5QGefi2DMPTfTL5SLmv7DivfNa" (34 characters)
ADDR_GENESIS ==
    << "1", "A", "1", "z", "P", "1", "e", "P", "5", "Q", "G", "e", "f", "i",
       "2", "D", "M", "P", "T", "f", "T", "L", "5", "S", "L", "m", "v", "7",
       "D", "i", "v", "f", "N", "a" >>
\* "3FupnqxAUJ1ZmZVVkTnEPCCCQh6X8D" (30 characters)
ADDR_P2SH ==
    << "3", "F", "u", "p", "n", "q", "x", "A", "U", "J", "1", "Z", "m", "Z",
       "V", "V", "k", "T", "n", "E", "P", "C", "C", "C", "Q", "h", "6", "X",
       "8", "D" >>
\* "1BoatSLRHtKNngkdXEeobR76b53LETtpyT" (34 characters, on no list)
ADDR_CLEAN ==
    << "1", "B", "o", "a", "t", "S", "L", "R", "H", "t", "K", "N", "n", "g",
       "k", "d", "X", "E", "e", "o", "b", "R", "7", "6", "b", "5", "3", "L",
       "E", "T", "t", "p", "y", "T" >>
\* "1TornadoCashXw9dUc3PmK7LqYb2NvZr5" (33 characters, holds "Tornado")
ADDR_MIXER ==
    << "1", "T", "o", "r", "n", "a", "d", "o", "C", "a", "s", "h", "X", "w",
       "9", "d", "U", "c", "3", "P", "m", "K", "7", "L", "q", "Y", "b", "2",
       "N", "v", "Z", "r", "5" >>
\* "1Short" (6 characters)
ADDR_SHORT == << "1", "S", "h", "o", "r", "t" >>
\* " 1BoatSLRHtKNngkdXEeobR76 " (26 characters, 24 once stripped)
ADDR_PADDED ==
    << " ", "1", "B", "o", "a", "t", "S", "L", "R", "H", "t", "K", "N", "n",
       "g", "k", "d", "X", "E", "e", "o", "b", "R", "7", "6", " " >>

---------------------------------------------------------------------------
(* R3 engine: lambda_functions/r3_engine/main.py *)

get_default_compliance_rules ==
    [ ofac_sanctions |-> [enabled |-> TRUE, risk_weight |-> Scale],
      high_value_threshold |->
          [enabled |-> TRUE, threshold |-> 10000 * AmountScale,
           risk_weight |-> Frac(3, 10)],
      mixer_detection |-> [enabled |-> TRUE, risk_weight |-> Frac(8, 10)],
      velocity_check |->
          [enabled |-> TRUE, max_transactions_per_hour |-> 100,
           risk_weight |-> Frac(4, 10)] ]

\* config is what config_table.query does: it raises, or it returns Items,
\* which the loop turns into {config_key: config_value}
load_compliance_rules(config) ==
    IF config.raises THEN get_default_compliance_rules ELSE config.rules

sanctioned_addresses == << ADDR_GENESIS, ADDR_P2SH >>

check_ofac_sanctions(transaction_data) ==
    LET from_address == Get(transaction_data, "from_address", EmptyStr)
        to_address == Get(transaction_data, "to_address", EmptyStr)
    IN  InList(from_address, sanctioned_addresses)
        \/ InList(to_address, sanctioned_addresses)

mixer_patterns ==
    << << "m", "i", "x" >>,
       << "t", "u", "m", "b", "l" >>,
       << "t", "o", "r", "n", "a", "d", "o" >> >>

check_mixer_involvement(transaction_data) ==
    LET from_address == lower(Get(transaction_data, "from_address", EmptyStr))
        to_address == lower(Get(transaction_data, "to_address", EmptyStr))
    IN  \E i \in 1..Len(mixer_patterns) :
            Contains(mixer_patterns[i], from_address)
            \/ Contains(mixer_patterns[i], to_address)

\* rules.get(name, {}).get('enabled', False)
rule_enabled(rules, name) == Get(Get(rules, name, EmptyDict), "enabled", FALSE)

\* the three blocks of apply_compliance_rules, each extending risk_flags or
\* raising KeyError on rules[name]['risk_weight'] / ['threshold']
ofac_block(transaction_data, rules, risk_flags) ==
    IF rule_enabled(rules, "ofac_sanctions") /\ check_ofac_sanctions(transaction_data)
    THEN IF "risk_weight" \in DOMAIN rules["ofac_sanctions"]
         THEN Return(Append(risk_flags,
                [rule |-> "ofac_sanctions",
                 description |-> "Address appears on OFAC sanctions list",
                 risk_weight |-> rules["ofac_sanctions"]["risk_weight"]]))
         ELSE Raise("KeyError: 'risk_weight'")
    ELSE Return(risk_flags)

\* Mutant: an amount equal to the threshold is flagged too
high_value_block_inclusive(transaction_data, rules, risk_flags) ==
    IF rule_enabled(rules, "high_value_threshold")
    THEN IF "threshold" \notin DOMAIN rules["high_value_threshold"]
         THEN Raise("KeyError: 'threshold'")
         ELSE LET threshold == rules["high_value_threshold"]["threshold"]
                  amount == Get(transaction_data, "amount", 0)
              IN  IF ~is_number(transaction_data)
                  THEN Raise("ValueError: could not convert string to float")
                  ELSE IF amount >= threshold
                  THEN IF "risk_weight" \in DOMAIN rules["high_value_threshold"]
                       THEN Return(Append(risk_flags,
                              [rule |-> "high_value_threshold",
                               description |->
                                   << "Transaction amount", amount,
                                      "exceeds threshold", threshold >>,
                               risk_weight |->
                                   rules["high_value_threshold"]["risk_weight"]]))
                       ELSE Raise("KeyError: 'risk_weight'")
                  ELSE Return(risk_flags)
    ELSE Return(risk_flags)

high_value_block(transaction_data, rules, risk_flags) ==
    IF rule_enabled(rules, "high_value_threshold")
    THEN IF "threshold" \notin DOMAIN rules["high_value_threshold"]
         THEN Raise("KeyError: 'threshold'")
         ELSE LET threshold == rules["high_value_threshold"]["threshold"]
                  amount == Get(transaction_data, "amount", 0)
              IN  IF ~is_number(transaction_data)
                  THEN Raise("ValueError: could not convert string to float")
                  ELSE IF amount > threshold
                  THEN IF "risk_weight" \in DOMAIN rules["high_value_threshold"]
                       THEN Return(Append(risk_flags,
                              [rule |-> "high_value_threshold",
                               description |->
                                   << "Transaction amount", amount,
                                      "exceeds threshold", threshold >>,
                               risk_weight |->
                                   rules["high_value_threshold"]["risk_weight"]]))
                       ELSE Raise("KeyError: 'risk_weight'")
                  ELSE Return(risk_flags)
    ELSE Return(risk_flags)

mixer_block(transaction_data, rules, risk_flags) ==
    IF rule_enabled(rules, "mixer_detection") /\ check_mixer_involvement(transaction_data)
    THEN IF "risk_weight" \in DOMAIN rules["mixer_detection"]
         THEN Return(Append(risk_flags,
                [rule |-> "mixer_detection",
                 description |-> "Transaction involves known mixing service",
                 risk_weight |-> rules["mixer_detection"]["risk_weight"]]))
         ELSE Raise("KeyError: 'risk_weight'")
    ELSE Return(risk_flags)

apply_compliance_rules(transaction_data, rules) ==
    LET r1 == ofac_block(transaction_data, rules, << >>)
    IN  IF r1.raised THEN r1
        ELSE LET r2 == high_value_block(transaction_data, rules, r1.value)
             IN  IF r2.raised THEN r2
                 ELSE mixer_block(transaction_data, rules, r2.value)

flag_weights(risk_flags) == [i \in 1..Len(risk_flags) |-> risk_flags[i].risk_weight]

\* Mutant: divides by the number of scored rules instead of the number of flags
calculate_compliance_risk_score_fixed_denominator(risk_flags) ==
    IF risk_flags = << >> THEN 0
    ELSE Min2(SumSeq(flag_weights(risk_flags)) \div 3, Scale)

\* Mutant: floor division (total_weight // max_possible_weight)
calculate_compliance_risk_score_floor_division(risk_flags) ==
    IF risk_flags = << >> THEN 0
    ELSE Min2(((SumSeq(flag_weights(risk_flags)) \div Len(risk_flags)) \div Scale) * Scale,
              Scale)

calculate_compliance_risk_score(risk_flags) ==
    IF risk_flags = << >> THEN 0
    ELSE LET total_weight == SumSeq(flag_weights(risk_flags))
             max_possible_weight == Len(risk_flags)
         IN  IF max_possible_weight > 0
             THEN Min2(total_weight \div max_possible_weight, Scale)
             ELSE 0

compliance_status(risk_score) ==
    IF risk_score > Frac(7, 10) THEN "HIGH_RISK"
    ELSE IF risk_score > Frac(3, 10) THEN "MEDIUM_RISK"
    ELSE "LOW_RISK"

r3_handler(event, context, config) ==
    LET transaction_data == Get(event, "transaction", EmptyDict)
        transaction_id == Get(transaction_data, "id", "unknown")
        rules == load_compliance_rules(config)
        risk_flags == apply_compliance_rules(transaction_data, rules)
    IN  IF risk_flags.raised
        THEN [statusCode |-> 500, body |-> [error |-> risk_flags.error]]
        ELSE LET risk_score == calculate_compliance_risk_score(risk_flags.value)
             IN  [statusCode |-> 200,
                  body |-> [transaction_id |-> transaction_id,
                            r3_risk_score |-> risk_score,
                            risk_flags |-> risk_flags.value,
                            compliance_status |-> compliance_status(risk_score),
                            timestamp |-> context.aws_request_id]]

---------------------------------------------------------------------------
(* ARSM: lambda_functions/arsm/main.py *)
(*                                                                          *)
(* graph is what the Neptune endpoint answers: whether the connection is    *)
(* made, whether each address vertex exists, and for every metric query     *)
(* either its answer or that it raises.  rnd holds the draws of the random  *)
(* module in get_mock_graph_metrics.                                        *)

\* None when the connection cannot be made
connect_to_neptune(graph) == graph.connected

get_mock_graph_metrics(transaction_data, rnd) ==
    LET amount == Get(transaction_data, "amount", 0)
        base_risk == Min2(Ratio(amount, 100000 * AmountScale), Frac(8, 10))
    IN  [centrality |-> base_risk + rnd.centrality,
         clustering |-> rnd.clustering,
         path_length |-> rnd.path_length,
         velocity |-> rnd.velocity,
         component_size |-> rnd.component_size]

calculate_centrality(graph) ==
    IF graph.degree_raises THEN Frac(1, 2)
    ELSE LET max_degree == Max2(graph.from_degree, graph.to_degree)
         IN  Min2(Ratio(max_degree, 100), Scale)

calculate_clustering_coefficient(graph) ==
    IF graph.neighbors_raises THEN Frac(3, 10)
    ELSE IF graph.neighbors < 2 THEN 0
    ELSE LET max_possible_edges == (graph.neighbors * (graph.neighbors - 1)) \div 2
         IN  IF max_possible_edges > 0
             THEN Ratio(graph.edges_between_neighbors, max_possible_edges)
             ELSE 0

\* path().next() raises StopIteration when no path is found
calculate_path_length(graph) ==
    IF graph.path_raises THEN 5 ELSE graph.path_vertices - 1

calculate_transaction_velocity(graph) ==
    IF graph.velocity_raises THEN Frac(2, 10)
    ELSE Min2(Ratio(graph.recent_count, 50), Scale)

analyze_connected_components(graph) ==
    IF graph.component_raises THEN 100
    ELSE Min2(graph.component_count, 10000)

\* float(amount) raises in the try block and again in the except block, so a
\* non-numeric amount leaves analyze_transaction_graph with an exception
analyze_transaction_graph(g, graph, transaction_data, rnd) ==
    IF ~is_number(transaction_data)
    THEN Raise("ValueError: could not convert string to float")
    ELSE IF ~g
    THEN Return(get_mock_graph_metrics(transaction_data, rnd))
    ELSE IF ~graph.from_vertex \/ ~graph.to_vertex
    THEN Return(get_mock_graph_metrics(transaction_data, rnd))
    ELSE Return([centrality |-> calculate_centrality(graph),
                 clustering |-> calculate_clustering_coefficient(graph),
                 path_length |-> calculate_path_length(graph),
                 velocity |-> calculate_transaction_velocity(graph),
                 component_size |-> analyze_connected_components(graph)])

path_risk(path_length) ==
    IF path_length <= 2 \/ path_length >= 8 THEN Scale ELSE Frac(3, 10)

\* Mutant: weighs clustering itself instead of 1 - clustering
calculate_graph_risk_score_raw_clustering(metrics) ==
    LET component_risk == Min2(Ratio(Get(metrics, "component_size", 100), 1000), Scale)
        risk_score ==
            (30 * Get(metrics, "centrality", 0) + 20 * Get(metrics, "clustering", 0)
             + 25 * Get(metrics, "velocity", 0)
             + 15 * path_risk(Get(metrics, "path_length", 5))
             + 10 * component_risk) \div 100
    IN  Min2(risk_score, Scale)

calculate_graph_risk_score(metrics) ==
    LET centrality == Get(metrics, "centrality", 0)
        clustering_risk == Scale - Get(metrics, "clustering", 0)
        velocity == Get(metrics, "velocity", 0)
        path_length == Get(metrics, "path_length", 5)
        component_risk == Min2(Ratio(Get(metrics, "component_size", 100), 1000), Scale)
        risk_score ==
            (30 * centrality + 20 * clustering_risk + 25 * velocity
             + 15 * path_risk(path_length) + 10 * component_risk) \div 100
    IN  Min2(risk_score, Scale)

\* store_analysis_metadata puts the float metrics with put_item, whose
\* serializer rejects floats; the TypeError is caught and nothing is stored
arsm_handler(event, context, graph, rnd) ==
    LET transaction_data == Get(event, "transaction", EmptyDict)
        transaction_id == Get(transaction_data, "id", "unknown")
        g == connect_to_neptune(graph)
        risk_metrics == analyze_transaction_graph(g, graph, transaction_data, rnd)
    IN  IF risk_metrics.raised
        THEN [statusCode |-> 500, body |-> [error |-> risk_metrics.error]]
        ELSE LET risk_score == calculate_graph_risk_score(risk_metrics.value)
             IN  [statusCode |-> 200,
                  body |-> [transaction_id |-> transaction_id,
                            arsm_risk_score |-> risk_score,
                            risk_metrics |-> risk_metrics.value,
                            graph_analysis |->
                                [centrality_score |->
                                     Get(risk_metrics.value, "centrality", 0),
                                 clustering_coefficient |->
                                     Get(risk_metrics.value, "clustering", 0),
                                 path_length |->
                                     Get(risk_metrics.value, "path_length", 0)],
                            timestamp |-> context.aws_request_id]]

---------------------------------------------------------------------------
(* TAD-X: lambda_functions/tad_x/main.py *)
(*                                                                          *)
(* A JSON array (the output of a Parallel state) is [json_array |-> items]: *)
(* a Python list, which has no get().  s3 is what get_object and joblib     *)
(* answer; probability is what the classifier predicts.  Feature values are *)
(* floats (multiples of 1/Scale).                                           *)

JsonArray(items) == [json_array |-> items]
is_list(v) == "json_array" \in DOMAIN v

MockFeatureNames ==
    << "amount", "r3_risk_score", "arsm_risk_score", "hour_of_day",
       "centrality", "clustering", "velocity", "component_size" >>

\* feature_columns of sagemaker_code/train_model.py, saved as feature_names
TrainedFeatureNames ==
    << "amount", "amount_usd", "hour_of_day", "day_of_week", "r3_risk_score",
       "arsm_risk_score", "centrality", "clustering", "velocity",
       "component_size" >>

create_mock_model == [feature_names |-> MockFeatureNames, predict_raises |-> FALSE]

load_ml_model(s3) ==
    IF s3.loaded
    THEN [feature_names |-> s3.feature_names, predict_raises |-> s3.predict_raises]
    ELSE create_mock_model

prepare_features(transaction_data, r3_result, arsm_result) ==
    LET graph_analysis == Get(arsm_result, "graph_analysis", EmptyDict)
        risk_metrics == Get(arsm_result, "risk_metrics", EmptyDict)
    IN  [amount |-> Get(transaction_data, "amount", 0) * (Scale \div AmountScale),
         hour_of_day |->
             ((Get(transaction_data, "timestamp", 1700000000) % 86400) \div 3600) * Scale,
         r3_risk_score |-> Get(r3_result, "r3_risk_score", 0),
         arsm_risk_score |-> Get(arsm_result, "arsm_risk_score", 0),
         centrality |-> Get(graph_analysis, "centrality_score", 0),
         clustering |-> Get(graph_analysis, "clustering_coefficient", 0),
         velocity |-> Get(risk_metrics, "velocity", 0),
         component_size |-> Get(risk_metrics, "component_size", 100) * Scale]

\* [features.get(name, 0) for name in model['feature_names']]
feature_array(model, features) ==
    [i \in 1..Len(model.feature_names) |-> Get(features, model.feature_names[i], 0)]

\* Mutant: the fallback takes the larger of the two scores instead of their mean
predict_fraud_fallback_max(model, features, probability) ==
    IF model.predict_raises
    THEN LET r3_score == Get(features, "r3_risk_score", 0)
             arsm_score == Get(features, "arsm_risk_score", 0)
             avg_score == Max2(r3_score, arsm_score)
         IN  << IF avg_score > Frac(1, 2) THEN 1 ELSE 0, avg_score >>
    ELSE << IF probability > Frac(1, 2) THEN 1 ELSE 0, probability >>

\* (prediction, probability)
predict_fraud(model, features, probability) ==
    IF model.predict_raises
    THEN LET r3_score == Get(features, "r3_risk_score", 0)
             arsm_score == Get(features, "arsm_risk_score", 0)
             avg_score == (r3_score + arsm_score) \div 2
         IN  << IF avg_score > Frac(1, 2) THEN 1 ELSE 0, avg_score >>
    ELSE << IF probability > Frac(1, 2) THEN 1 ELSE 0, probability >>

\* sorted(..., key=importance, reverse=True): stable, so x goes after every
\* entry whose importance is not smaller (all entries share one denominator)
\* Mutant: the explanations keep the order of feature_names
sort_by_importance_feature_order(items) == items

RECURSIVE insert_by_importance(_, _)
insert_by_importance(sorted, x) ==
    IF sorted = << >> THEN << x >>
    ELSE IF Head(sorted).importance.num >= x.importance.num
         THEN << Head(sorted) >> \o insert_by_importance(Tail(sorted), x)
         ELSE << x >> \o sorted

RECURSIVE sort_by_importance(_)
sort_by_importance(items) ==
    IF items = << >> THEN << >>
    ELSE insert_by_importance(
             sort_by_importance(SubSeq(items, 1, Len(items) - 1)),
             items[Len(items)])

\* Mutant: a value of exactly 0.5 counts as a positive impact
generate_shap_explanations_inclusive_impact(model, features) ==
    LET names == model.feature_names
        total_score == SumSeq([i \in 1..Len(names) |-> Abs(Get(features, names[i], 0))])
        explanation(name) ==
            LET value == Get(features, name, 0)
            IN  [feature |-> name,
                 value |-> value,
                 importance |->
                     IF total_score > 0
                     THEN [num |-> Abs(value), den |-> total_score]
                     ELSE [num |-> 0, den |-> 1],
                 impact |-> IF value >= Frac(1, 2) THEN "positive" ELSE "negative"]
    IN  sort_by_importance([i \in 1..Len(names) |-> explanation(names[i])])

\* importance is the exact fraction num/den. The except clause (fixed
\* importances 0.3, 0.3, 0.2) needs a model without feature_names or a
\* feature that is not a number: neither the package saved by the training
\* script nor the mock model nor prepare_features produces one.
generate_shap_explanations(model, features) ==
    LET names == model.feature_names
        total_score == SumSeq([i \in 1..Len(names) |-> Abs(Get(features, names[i], 0))])
        explanation(name) ==
            LET value == Get(features, name, 0)
            IN  [feature |-> name,
                 value |-> value,
                 importance |->
                     IF total_score > 0
                     THEN [num |-> Abs(value), den |-> total_score]
                     ELSE [num |-> 0, den |-> 1],
                 impact |-> IF value > Frac(1, 2) THEN "positive" ELSE "negative"]
    IN  sort_by_importance([i \in 1..Len(names) |-> explanation(names[i])])

\* Mutant: the classifier's weight and the compliance weight are swapped
calculate_final_risk_score_swapped_weights(r3_score, arsm_score, ml_score) ==
    LET final_score == (4 * r3_score + 3 * arsm_score + 3 * ml_score) \div 10
    IN  Min2(final_score, Scale)

calculate_final_risk_score(r3_score, arsm_score, ml_score) ==
    LET final_score == (3 * r3_score + 3 * arsm_score + 4 * ml_score) \div 10
    IN  Min2(final_score, Scale)

\* Mutant: the lower bounds are exclusive
get_risk_category_exclusive_bounds(risk_score) ==
    IF risk_score > Frac(8, 10) THEN "CRITICAL"
    ELSE IF risk_score > Frac(6, 10) THEN "HIGH"
    ELSE IF risk_score > Frac(4, 10) THEN "MEDIUM"
    ELSE IF risk_score > Frac(2, 10) THEN "LOW"
    ELSE "MINIMAL"

get_risk_category(risk_score) ==
    IF risk_score >= Frac(8, 10) THEN "CRITICAL"
    ELSE IF risk_score >= Frac(6, 10) THEN "HIGH"
    ELSE IF risk_score >= Frac(4, 10) THEN "MEDIUM"
    ELSE IF risk_score >= Frac(2, 10) THEN "LOW"
    ELSE "MINIMAL"

\* put_item is given risk_score as a Python float, which the DynamoDB
\* serializer rejects with TypeError; the except clause prints it, so the
\* table is left as it was
store_results(table, result) == table

\* the response of the handler, and the results table after it
tad_x_handler(event, context, s3, probability, table) ==
    IF is_list(event)
    THEN [response |-> [statusCode |-> 500,
                        body |-> [error |-> "'list' object has no attribute 'get'"]],
          table |-> table]
    ELSE IF ~is_number(Get(event, "transaction", EmptyDict))
    THEN [response |-> [statusCode |-> 500,
                        body |-> [error |-> "could not convert string to float"]],
          table |-> table]
    ELSE
    LET transaction_data == Get(event, "transaction", EmptyDict)
        r3_result ==
            Get(Get(Get(event, "r3_result", EmptyDict), "Payload", EmptyDict),
                "body", EmptyDict)
        arsm_result ==
            Get(Get(Get(event, "arsm_result", EmptyDict), "Payload", EmptyDict),
                "body", EmptyDict)
        transaction_id == Get(transaction_data, "id", "unknown")
        model == load_ml_model(s3)
        features == prepare_features(transaction_data, r3_result, arsm_result)
        predicted == predict_fraud(model, features, probability)
        explanations == generate_shap_explanations(model, features)
        final_risk_score ==
            calculate_final_risk_score(Get(r3_result, "r3_risk_score", 0),
                                       Get(arsm_result, "arsm_risk_score", 0),
                                       predicted[2])
        result ==
            [transaction_id |-> transaction_id,
             final_prediction |-> predicted[1],
             fraud_probability |-> predicted[2],
             final_risk_score |-> final_risk_score,
             risk_category |-> get_risk_category(final_risk_score),
             explanations |-> explanations,
             model_features |-> features,
             component_scores |->
                 [r3_score |-> Get(r3_result, "r3_risk_score", 0),
                  arsm_score |-> Get(arsm_result, "arsm_risk_score", 0),
                  ml_score |-> predicted[2]],
             timestamp |-> context.aws_request_id]
    IN  [response |-> [statusCode |-> 200, body |-> result],
         table |-> store_results(table, result)]

---------------------------------------------------------------------------
(* Data ingestion: lambda_functions/data_ingestion/main.py *)

\* the sample of generate_sample_transaction: "1" / "3" and 33 hex digits
SAMPLE_FROM ==
    << "1", "0", "1", "2", "3", "4", "5", "6", "7", "8", "9", "A", "B", "C",
       "D", "E", "F", "a", "b", "c", "d", "e", "f", "0", "1", "2", "3", "4",
       "5", "6", "7", "8", "9", "A" >>
SAMPLE_TO ==
    << "3", "0", "1", "2", "3", "4", "5", "6", "7", "8", "9", "A", "B", "C",
       "D", "E", "F", "a", "b", "c", "d", "e", "f", "0", "1", "2", "3", "4",
       "5", "6", "7", "8", "9", "A" >>

generate_sample_transaction(id, time, amount) ==
    [id |-> id, from_address |-> SAMPLE_FROM, to_address |-> SAMPLE_TO,
     amount |-> amount, timestamp |-> time, block_height |-> 700000,
     gas_price |-> 20, gas_used |-> 21000, currency |-> "BTC"]

\* str.upper() of the currency codes in use
upper_currency(c) ==
    IF c = "btc" THEN "BTC" ELSE IF c = "eth" THEN "ETH" ELSE c

validate_transaction_data(transaction_data, time) ==
    LET validated ==
            [id |-> Get(transaction_data, "id", "unknown"),
             from_address |-> strip(Get(transaction_data, "from_address", EmptyStr)),
             to_address |-> strip(Get(transaction_data, "to_address", EmptyStr)),
             amount |-> Get(transaction_data, "amount", 0),
             timestamp |-> Get(transaction_data, "timestamp", time),
             block_height |-> Get(transaction_data, "block_height", 0),
             gas_price |-> Get(transaction_data, "gas_price", 0),
             gas_used |-> Get(transaction_data, "gas_used", 0),
             currency |-> upper_currency(Get(transaction_data, "currency", "BTC"))]
    IN  IF ~is_number(transaction_data)
        THEN Raise("could not convert string to float")
        ELSE IF validated.from_address = EmptyStr \/ validated.to_address = EmptyStr
        THEN Raise("Missing required address fields")
        ELSE IF validated.amount <= 0
        THEN Raise("Invalid transaction amount")
        ELSE IF Len(validated.from_address) < 26 \/ Len(validated.to_address) < 26
        THEN Raise("Invalid address format")
        ELSE Return(validated)

\* mock exchange rates, in whole dollars per unit (XRP at 0.6 is not used)
exchange_rate(currency) ==
    IF currency = "BTC" THEN 45000
    ELSE IF currency = "ETH" THEN 3000
    ELSE IF currency = "LTC" THEN 100
    ELSE IF currency = "BCH" THEN 300
    ELSE 1

\* in amount units, as amount * rate
estimate_usd_value(amount, currency) == amount * exchange_rate(currency)

classify_address(address) ==
    IF address # << >> /\ address[1] = "1" THEN "P2PKH"
    ELSE IF address # << >> /\ address[1] = "3" THEN "P2SH"
    ELSE IF Len(address) >= 3 /\ SubSeq(address, 1, 3) = << "b", "c", "1" >> THEN "BECH32"
    ELSE IF Len(address) >= 2 /\ SubSeq(address, 1, 2) = << "0", "x" >> THEN "ETH"
    ELSE "UNKNOWN"

categorize_transaction_size(usd_amount) ==
    IF usd_amount < 100 * AmountScale THEN "MICRO"
    ELSE IF usd_amount < 1000 * AmountScale THEN "SMALL"
    ELSE IF usd_amount < 10000 * AmountScale THEN "MEDIUM"
    ELSE IF usd_amount < 100000 * AmountScale THEN "LARGE"
    ELSE "WHALE"

enrich_transaction_data(transaction_data, time) ==
    LET amount_usd ==
            estimate_usd_value(transaction_data.amount, transaction_data.currency)
        added ==
            [processed_at |-> time,
             processing_id |-> << "proc", time >>,
             amount_usd |-> amount_usd,
             hour_of_day |-> (transaction_data.timestamp % 86400) \div 3600,
             day_of_week |-> ((transaction_data.timestamp \div 86400) + 4) % 7,
             from_address_type |-> classify_address(transaction_data.from_address),
             to_address_type |-> classify_address(transaction_data.to_address),
             size_category |-> categorize_transaction_size(amount_usd)]
    IN  [k \in DOMAIN transaction_data \cup DOMAIN added |->
            IF k \in DOMAIN added THEN added[k] ELSE transaction_data[k]]

\* env is what the handler draws from outside: the uuid and amount of the sample,
\* whether put_object fails (store_raw_data then returns None, here << >>), and
\* the status trigger_etl_processing ends in
data_ingestion_handler(event, context, env, time) ==
    LET given == Get(event, "transaction", EmptyDict)
        transaction_data ==
            IF given = EmptyDict
            THEN generate_sample_transaction(env.uuid, time, env.amount)
            ELSE given
        validated_data == validate_transaction_data(transaction_data, time)
    IN  IF validated_data.raised
        THEN [statusCode |-> 500, body |-> [error |-> validated_data.error]]
        ELSE LET enriched_data == enrich_transaction_data(validated_data.value, time)
             IN  [statusCode |-> 200,
                  body |-> [transaction |-> enriched_data,
                            s3_location |->
                                IF env.put_fails THEN << >>
                                ELSE << "raw-transactions", enriched_data.id >>,
                            glue_job |-> [status |-> env.etl],
                            status |-> "success",
                            timestamp |-> context.aws_request_id]]

---------------------------------------------------------------------------
(* Inputs of the stage-level specification *)

MkTx(id, from_address, to_address, amount) ==
    [id |-> id, from_address |-> from_address, to_address |-> to_address,
     amount |-> amount, timestamp |-> 1700000000, currency |-> "BTC"]

Context == [aws_request_id |-> "request-id"]

\* risk_weight values a configured rule may carry: -0.5, 0, 0.3, 0.8, 1.0, 1.5
RuleWeights == { Frac(-1, 2), 0, Frac(3, 10), Frac(8, 10), Scale, Frac(3, 2) }

\* config_value of one rule: absent, disabled, without an 'enabled' key,
\* enabled with each weight, enabled without a weight
RuleEntries ==
    { [present |-> FALSE] }
    \cup { [present |-> TRUE, entry |-> e] :
             e \in { [enabled |-> FALSE, risk_weight |-> Scale],
                     [risk_weight |-> Scale],
                     [enabled |-> TRUE] }
                   \cup { [enabled |-> TRUE, risk_weight |-> w] : w \in RuleWeights } }

WithThreshold(e) == Put(e, "threshold", 10000 * AmountScale)

\* high_value_threshold entries: with the threshold, and one enabled without it
HighValueEntries ==
    { [present |-> FALSE] }
    \cup { [present |-> TRUE, entry |-> WithThreshold(o.entry)] :
             o \in { x \in RuleEntries : x.present } }
    \cup { [present |-> TRUE, entry |-> [enabled |-> TRUE, risk_weight |-> Frac(3, 10)]] }

MkRules(o, h, m) ==
    [k \in { r \in {"ofac_sanctions"} : o.present }
           \cup { r \in {"high_value_threshold"} : h.present }
           \cup { r \in {"mixer_detection"} : m.present } |->
        IF k = "ofac_sanctions" THEN o.entry
        ELSE IF k = "high_value_threshold" THEN h.entry
        ELSE m.entry]

RuleSets == { MkRules(o, h, m) : o \in RuleEntries, h \in HighValueEntries, m \in RuleEntries }

\* what config_table.query does: raise, or return the items of a ruleset
ConfigOutcomes ==
    { [raises |-> TRUE] } \cup { [raises |-> FALSE, rules |-> r] : r \in RuleSets }

\* amounts 0.5, 10000, 10000.01 and 50000
R3Amounts == { 50, 10000 * AmountScale, 10000 * AmountScale + 1, 50000 * AmountScale }

R3Transactions ==
    { MkTx("tx-1", f, t, a) :
        f \in { ADDR_CLEAN, ADDR_GENESIS, ADDR_MIXER },
        t \in { ADDR_CLEAN, ADDR_P2SH },
        a \in R3Amounts }
    \cup { [id |-> "tx-1"] }

\* amounts -1000000, 0.5, 20000 and 100000, and a missing amount
ArsmTransactions ==
    { MkTx("tx-1", ADDR_CLEAN, ADDR_CLEAN, a) :
        a \in { -1000000 * AmountScale, 50, 20000 * AmountScale,
                100000 * AmountScale } }
    \cup { [id |-> "tx-1"] }

\* a transaction whose amount is the text "abc"
NonNumericTransactions ==
    { [id |-> "tx-1", from_address |-> ADDR_GENESIS, to_address |-> ADDR_CLEAN,
       amount_text |-> << "a", "b", "c" >>, timestamp |-> 1700000000,
       currency |-> "BTC"] }

\* draws of random.uniform / random.randint at both ends of their ranges
RandomDraws ==
    [centrality : { Frac(-2, 10), 0, Frac(2, 10) },
     clustering : { Frac(1, 10), Frac(9, 10) },
     path_length : { 2, 5, 10 },
     velocity : { Frac(1, 10), Scale },
     component_size : { 10, 1000 }]

NoDraws ==
    [centrality |-> 0, clustering |-> Frac(1, 2), path_length |-> 5,
     velocity |-> Frac(1, 2), component_size |-> 500]

\* the draws of a second analysis: every draw at the low end of its range,
\* or every draw at the high end
RepeatDraws ==
    { [centrality |-> Frac(-2, 10), clustering |-> Frac(1, 10), path_length |-> 2,
       velocity |-> Frac(1, 10), component_size |-> 10],
      [centrality |-> Frac(2, 10), clustering |-> Frac(9, 10), path_length |-> 10,
       velocity |-> Scale, component_size |-> 1000] }

\* the endpoint refuses the connection, or an address vertex is missing
DownGraphs ==
    { [connected |-> FALSE],
      [connected |-> TRUE, from_vertex |-> FALSE, to_vertex |-> TRUE],
      [connected |-> TRUE, from_vertex |-> TRUE, to_vertex |-> FALSE] }

DegreeAnswers ==
    { [degree_raises |-> TRUE, from_degree |-> 0, to_degree |-> 0],
      [degree_raises |-> FALSE, from_degree |-> 0, to_degree |-> 0],
      [degree_raises |-> FALSE, from_degree |-> 3, to_degree |-> 40],
      [degree_raises |-> FALSE, from_degree |-> 250, to_degree |-> 3] }

NeighborAnswers ==
    { [neighbors_raises |-> TRUE, neighbors |-> 0, edges_between_neighbors |-> 0],
      [neighbors_raises |-> FALSE, neighbors |-> 1, edges_between_neighbors |-> 0],
      [neighbors_raises |-> FALSE, neighbors |-> 3, edges_between_neighbors |-> 0],
      [neighbors_raises |-> FALSE, neighbors |-> 3, edges_between_neighbors |-> 3],
      [neighbors_raises |-> FALSE, neighbors |-> 4, edges_between_neighbors |-> 3] }

PathAnswers ==
    { [path_raises |-> TRUE, path_vertices |-> 0],
      [path_raises |-> FALSE, path_vertices |-> 2],
      [path_raises |-> FALSE, path_vertices |-> 6],
      [path_raises |-> FALSE, path_vertices |-> 9] }

VelocityAnswers ==
    { [velocity_raises |-> TRUE, recent_count |-> 0],
      [velocity_raises |-> FALSE, recent_count |-> 0],
      [velocity_raises |-> FALSE, recent_count |-> 80] }

ComponentAnswers ==
    { [component_raises |-> TRUE, component_count |-> 0],
      [component_raises |-> FALSE, component_count |-> 0],
      [component_raises |-> FALSE, component_count |-> 50000] }

LiveGraphs ==
    { [connected |-> TRUE, from_vertex |-> TRUE, to_vertex |-> TRUE,
       degree_raises |-> d.degree_raises, from_degree |-> d.from_degree,
       to_degree |-> d.to_degree,
       neighbors_raises |-> n.neighbors_raises, neighbors |-> n.neighbors,
       edges_between_neighbors |-> n.edges_between_neighbors,
       path_raises |-> p.path_raises, path_vertices |-> p.path_vertices,
       velocity_raises |-> v.velocity_raises, recent_count |-> v.recent_count,
       component_raises |-> c.component_raises,
       component_count |-> c.component_count] :
        d \in DegreeAnswers, n \in NeighborAnswers, p \in PathAnswers,
        v \in VelocityAnswers, c \in ComponentAnswers }

\* (graph, rnd): a live graph draws nothing
ArsmEnvironments ==
    { << graph, NoDraws >> : graph \in LiveGraphs }
    \cup (DownGraphs \X RandomDraws)

\* get_object / joblib.load fail, or give the trained package
S3Outcomes ==
    { [loaded |-> FALSE] }
    \cup { [loaded |-> TRUE, feature_names |-> TrainedFeatureNames,
            predict_raises |-> b] : b \in BOOLEAN }

\* predict_proba(...)[0][1]
Probabilities == { 0, Frac(1, 4), Frac(1, 2), Frac(8, 10), Scale }

FusionTransactions ==
    { MkTx("tx-1", ADDR_GENESIS, ADDR_CLEAN, a) :
        a \in { 50, 20000 * AmountScale } }

FusionConfigs ==
    { [raises |-> TRUE],
      [raises |-> FALSE, rules |-> EmptyDict],
      [raises |-> FALSE,
       rules |-> [ofac_sanctions |-> [enabled |-> TRUE, risk_weight |-> Frac(-1, 2)]]],
      [raises |-> FALSE, rules |-> [ofac_sanctions |-> [enabled |-> TRUE]]] }

FusionEnvironments ==
    { << graph, NoDraws >> :
        graph \in { g \in LiveGraphs :
                      /\ ~g.degree_raises /\ ~g.neighbors_raises /\ ~g.path_raises
                      /\ ~g.velocity_raises /\ ~g.component_raises
                      /\ g.neighbors = 3 /\ g.path_vertices = 2 } }
    \cup { << [connected |-> FALSE], rnd >> :
             rnd \in { r \in RandomDraws : r.clustering = Frac(1, 10) /\ r.path_length = 2 } }

\* the event the handler reads: the transaction with both stage results
FusionEvent(tx, r3_response, arsm_response) ==
    [transaction |-> tx,
     r3_result |-> [Payload |-> r3_response],
     arsm_result |-> [Payload |-> arsm_response]]

\* events of the ingestion handler: well-formed (one with a lower-case
\* currency), an address that is too short, one that is too short once
\* stripped, amounts 0 and -5, a missing to_address, and no transaction
IngestionTransactions ==
    { MkTx("tx-1", ADDR_GENESIS, ADDR_CLEAN, 50),
      [MkTx("tx-1", ADDR_CLEAN, ADDR_P2SH, 150 * AmountScale) EXCEPT !.currency = "eth"],
      MkTx("tx-1", ADDR_SHORT, ADDR_CLEAN, 50),
      MkTx("tx-1", ADDR_CLEAN, ADDR_PADDED, 50),
      MkTx("tx-1", ADDR_CLEAN, ADDR_CLEAN, 0),
      MkTx("tx-1", ADDR_CLEAN, ADDR_CLEAN, -5 * AmountScale),
      [id |-> "tx-1", from_address |-> ADDR_CLEAN, amount |-> 50],
      EmptyDict }

\* the sample's amount is drawn from 0.001 to 100.0
IngestionEnvs ==
    [uuid : { "uuid-0" }, amount : { 1, 100 * AmountScale },
     put_fails : BOOLEAN, etl : { "skipped", "triggered", "error" }]

---------------------------------------------------------------------------
(* Stage-level specification: one direct invocation of a stage handler *)

NoCall == [stage |-> "none"]

StagesInit ==
    /\ now = 0
    /\ executions = << >>
    /\ responses = << >>
    /\ uuids = 0
    /\ results_table = << >>
    /\ call = NoCall

RunDataIngestion ==
    /\ call = NoCall
    /\ \E tx \in IngestionTransactions \cup NonNumericTransactions,
          env \in IngestionEnvs :
         call' = [stage |-> "data_ingestion",
                  event |-> [transaction |-> tx],
                  env |-> env,
                  result |-> data_ingestion_handler([transaction |-> tx], Context,
                                                    env, now)]
    /\ UNCHANGED << now, executions, responses, uuids, results_table >>

RunR3 ==
    /\ call = NoCall
    /\ \E tx \in R3Transactions \cup NonNumericTransactions,
          config \in ConfigOutcomes :
         call' = [stage |-> "r3",
                  event |-> [transaction |-> tx],
                  config |-> config,
                  result |-> r3_handler([transaction |-> tx], Context, config)]
    /\ UNCHANGED << now, executions, responses, uuids, results_table >>

RunARSM ==
    /\ call = NoCall
    /\ \E tx \in ArsmTransactions \cup NonNumericTransactions,
          env \in ArsmEnvironments :
         call' = [stage |-> "arsm",
                  event |-> [transaction |-> tx],
                  graph |-> env[1],
                  rnd |-> env[2],
                  result |-> arsm_handler([transaction |-> tx], Context, env[1], env[2])]
    /\ UNCHANGED << now, executions, responses, uuids, results_table >>

\* the graph stage is invoked once more with the same event while the graph
\* store answers as before; the random module draws afresh
RepeatARSM ==
    /\ call.stage = "arsm"
    /\ "repeat" \notin DOMAIN call
    /\ \E rnd \in RepeatDraws :
         call' = Put(call, "repeat",
                     [rnd |-> rnd,
                      result |-> arsm_handler(call.event, Context, call.graph, rnd)])
    /\ UNCHANGED << now, executions, responses, uuids, results_table >>

RunTADX ==
    /\ call = NoCall
    /\ \E tx \in FusionTransactions \cup NonNumericTransactions,
          config \in FusionConfigs,
          env \in FusionEnvironments, s3 \in S3Outcomes, probability \in Probabilities :
         LET event ==
                 FusionEvent(tx,
                             r3_handler([transaction |-> tx], Context, config),
                             arsm_handler([transaction |-> tx], Context, env[1], env[2]))
             out == tad_x_handler(event, Context, s3, probability, results_table)
         IN  /\ call' = [stage |-> "tad_x",
                         event |-> event,
                         s3 |-> s3,
                         probability |-> probability,
                         result |-> out.response]
             /\ results_table' = out.table
    /\ UNCHANGED << now, executions, responses, uuids >>

\* scores handed to calculate_final_risk_score
ScoreGrid == { 0, Frac(1, 4), Frac(1, 2), Frac(3, 4), Scale }

CallFinalRiskScore ==
    /\ call = NoCall
    /\ \E r3_score \in ScoreGrid, arsm_score \in ScoreGrid, ml_score \in ScoreGrid :
         call' = [stage |-> "final_risk_score",
                  r3_score |-> r3_score,
                  arsm_score |-> arsm_score,
                  ml_score |-> ml_score,
                  result |-> calculate_final_risk_score(r3_score, arsm_score, ml_score)]
    /\ UNCHANGED << now, executions, responses, uuids, results_table >>

\* scores handed to get_risk_category: each threshold, the score one unit
\* below it, and scores outside [0, 1]
CategoryScores ==
    { -1, 0, Scale, Scale + 1 }
    \cup { Frac(k, 10) : k \in { 2, 4, 6, 8 } }
    \cup { Frac(k, 10) - 1 : k \in { 2, 4, 6, 8 } }

\* two scores are categorised
CallRiskCategory ==
    /\ call = NoCall
    /\ \E risk_score \in CategoryScores, other_score \in CategoryScores :
         call' = [stage |-> "risk_category",
                  risk_score |-> risk_score,
                  other_score |-> other_score,
                  result |-> get_risk_category(risk_score),
                  other_result |-> get_risk_category(other_score)]
    /\ UNCHANGED << now, executions, responses, uuids, results_table >>

\* the model packages generate_shap_explanations can be given
ExplanationModels ==
    { create_mock_model,
      load_ml_model([loaded |-> TRUE, feature_names |-> TrainedFeatureNames,
                     predict_raises |-> FALSE]) }

\* eight pairwise distinct values, as prepare_features can produce them
DistinctFeatures ==
    [amount |-> 10 * Scale, r3_risk_score |-> Scale, arsm_risk_score |-> Frac(1, 2),
     hour_of_day |-> 3 * Scale, centrality |-> Frac(-2, 10),
     clustering |-> Frac(3, 4), velocity |-> Frac(1, 10),
     component_size |-> 100 * Scale]

\* the distinct values, and feature dicts in which three features range over
\* a negative value, zero, 0.5, the value just above 0.5 and a large value,
\* the others being 0
ExplanationFeatures ==
    LET values == { Frac(-2, 10), 0, Frac(1, 2), Frac(1, 2) + 1, 10 * Scale }
    IN  { DistinctFeatures }
        \cup { [amount |-> a, r3_risk_score |-> r, arsm_risk_score |-> 0,
                hour_of_day |-> 0, centrality |-> c, clustering |-> 0,
                velocity |-> 0, component_size |-> 0] :
                 a \in values, r \in values, c \in values }

CallShapExplanations ==
    /\ call = NoCall
    /\ \E model \in ExplanationModels, features \in ExplanationFeatures :
         call' = [stage |-> "explanations",
                  model |-> model,
                  features |-> features,
                  result |-> generate_shap_explanations(model, features)]
    /\ UNCHANGED << now, executions, responses, uuids, results_table >>

StagesNext ==
    \/ CallShapExplanations
    \/ RunDataIngestion
    \/ RunR3
    \/ RunARSM
    \/ RepeatARSM
    \/ RunTADX
    \/ CallFinalRiskScore
    \/ CallRiskCategory

SpecStages == StagesInit /\ [][StagesNext]_vars

R3Returned == call.stage = "r3" /\ call.result.statusCode = 200
ARSMReturned == call.stage = "arsm" /\ call.result.statusCode = 200
TADXReturned == call.stage = "tad_x" /\ call.result.statusCode = 200

---------------------------------------------------------------------------
(* Orchestrator: lambda_functions/orchestrator/main.py *)

MaxSubmits == 2
MaxTime == 1

\* str(uuid.uuid4()), one fresh value per call
UuidNames == << "uuid-1", "uuid-2", "uuid-3", "uuid-4", "uuid-5", "uuid-6" >>

\* f"raid-x-{transaction_data['id']}-{int(time.time())}"
execution_name(id, time) == << "raid-x", id, time >>

\* the ARN Step Functions gives an execution ends in its name
execution_arn(name) == << "arn:aws:states:execution:RaidXStateMachine", name >>

ExecutionNames == { executions[i].name : i \in 1..Len(executions) }

\* the state of a started execution: it stands in DataIngestionTask, whose
\* Lambda is invoked with the execution input
new_execution(name, execution_input) ==
    [name |-> name,
     input |-> execution_input,
     status |-> "RUNNING",
     state |-> "DataIngestionTask",
     data |-> execution_input,
     r3 |-> "idle",
     arsm |-> "idle",
     r3_event |-> EmptyDict,
     arsm_event |-> EmptyDict,
     r3_output |-> EmptyDict,
     arsm_output |-> EmptyDict,
     graph_unavailable |-> FALSE,
     finished |-> << >>,
     invoked |-> [data_ingestion |-> 1, r3_engine |-> 0, arsm |-> 0, tad_x |-> 0],
     error |-> "none"]

\* start_execution: a name in use with another input is ExecutionAlreadyExists
\* (the input carries the request id, which no two requests share)
start_execution(name, execution_input) ==
    IF name \in ExecutionNames
    THEN Raise("ExecutionAlreadyExists")
    ELSE Return([executionArn |-> execution_arn(name)])

\* returns the response and the execution it started, if any
handle_analyze_request(event, context, uuid, time) ==
    LET request_data == Get(event, "body", EmptyDict)
        given == Get(request_data, "transaction", EmptyDict)
        transaction_data ==
            IF given = EmptyDict
            THEN [id |-> uuid, from_address |-> ADDR_GENESIS,
                  to_address |-> ADDR_P2SH, amount |-> 50,
                  timestamp |-> time, currency |-> "BTC"]
            ELSE given
        execution_input ==
            [transaction |-> transaction_data,
             request_id |-> context.aws_request_id,
             timestamp |-> time]
    IN  IF "id" \notin DOMAIN transaction_data
        THEN [response |-> [statusCode |-> 500, body |-> [error |-> "'id'"]],
              started |-> << >>]
        ELSE LET name == execution_name(transaction_data.id, time)
                 response == start_execution(name, execution_input)
             IN  IF response.raised
                 THEN [response |-> [statusCode |-> 500,
                                     body |-> [error |-> response.error]],
                       started |-> << >>]
                 ELSE [response |->
                           [statusCode |-> 200,
                            body |-> [message |-> "Analysis started",
                                      execution_arn |-> response.value.executionArn,
                                      transaction_id |-> transaction_data.id,
                                      status |-> "RUNNING"]],
                       started |-> << new_execution(name, execution_input) >>]

\* the orchestrator's role may start executions (grant_start_execution) and
\* send task results; states:DescribeExecution is granted nowhere
DescribeExecutionGranted == FALSE

\* GET /status?execution_arn=...; execs are the executions of the state machine
check_execution_status(execution_arn_, execs) ==
    LET found == { i \in 1..Len(execs) : execution_arn(execs[i].name) = execution_arn_ }
    IN  IF ~DescribeExecutionGranted
        THEN [statusCode |-> 500, body |-> [error |-> "AccessDeniedException"]]
        ELSE IF found = {}
        THEN [statusCode |-> 500, body |-> [error |-> "ExecutionDoesNotExist"]]
        ELSE LET e == execs[CHOOSE i \in found : TRUE]
                 result_data ==
                     [execution_arn |-> execution_arn_,
                      status |-> e.status,
                      started_at |-> e.name[3]]
                 stopped == Put(result_data, "stopped_at", "stopDate")
             IN  [statusCode |-> 200,
                  body |-> IF e.status = "SUCCEEDED"
                           THEN Put(stopped, "result", e.data)
                           ELSE IF e.status = "FAILED"
                           THEN Put(stopped, "error", e.error)
                           ELSE IF e.status \in { "TIMED_OUT", "ABORTED" }
                           THEN stopped
                           ELSE result_data]

\* GET /status?transaction_id=...: the same answer for every id
lookup_transaction_status(transaction_id) ==
    [statusCode |-> 200,
     body |-> [transaction_id |-> transaction_id,
               status |-> "COMPLETED",
               message |-> "Transaction analysis completed",
               risk_score |-> Frac(3, 10),
               risk_category |-> "LOW"]]

get_system_status(time) ==
    [statusCode |-> 200,
     body |-> [system |-> "RAID-X", status |-> "OPERATIONAL", version |-> "1.0.0",
               environment |-> "dev", timestamp |-> time]]

handle_status_request(event, context, execs, time) ==
    LET query_params == Get(event, "queryStringParameters", EmptyDict)
    IN  IF "execution_arn" \in DOMAIN query_params
        THEN check_execution_status(query_params.execution_arn, execs)
        ELSE IF "transaction_id" \in DOMAIN query_params
        THEN lookup_transaction_status(query_params.transaction_id)
        ELSE get_system_status(time)

---------------------------------------------------------------------------
(* State machine: raid_x_stack/stepfunctions_construct.py *)

\* what a LambdaInvoke task puts at its result_path
TaskOutput(response) ==
    [ExecutedVersion |-> "$LATEST", Payload |-> response, StatusCode |-> 200]

\* the Parallel state is done when every branch is
ParallelAnalysisDone_either_branch(e) == e.r3 = "succeeded" \/ e.arsm = "succeeded"

\* Mutant: the join waits for two results that are not error results
ParallelAnalysisDone_without_errors(e) ==
    /\ e.r3 = "succeeded"
    /\ e.arsm = "succeeded"
    /\ e.r3_output.r3_result.Payload.statusCode = 200
    /\ e.arsm_output.arsm_result.Payload.statusCode = 200

ParallelAnalysisDone(e) == e.r3 = "succeeded" /\ e.arsm = "succeeded"

\* a failed or timed-out execution stops the branches still running
abort(branch) == IF branch = "running" THEN "aborted" ELSE branch

fail_execution(e, error) ==
    [e EXCEPT !.status = "FAILED", !.error = error,
              !.r3 = abort(e.r3), !.arsm = abort(e.arsm)]

\* requests: a well-formed transaction of 20000 USDT, one with a 6-character
\* address, one whose amount is a text, one without id, and a request
\* without a transaction
PipelineTransactions ==
    { [MkTx("tx-1", ADDR_GENESIS, ADDR_CLEAN, 20000 * AmountScale)
          EXCEPT !.currency = "USDT"],
      MkTx("tx-2", ADDR_SHORT, ADDR_CLEAN, 50),
      [id |-> "tx-3", from_address |-> ADDR_GENESIS, to_address |-> ADDR_CLEAN,
       amount_text |-> << "a", "b", "c" >>, timestamp |-> 1700000000,
       currency |-> "BTC"],
      [from_address |-> ADDR_CLEAN, to_address |-> ADDR_CLEAN, amount |-> 50] }

RequestBodies == { [transaction |-> tx] : tx \in PipelineTransactions } \cup { EmptyDict }

PipelineIngestionEnvs ==
    { [uuid |-> "uuid-0", amount |-> 50, put_fails |-> FALSE, etl |-> "skipped"] }

\* the configuration table as deployed holds no items; an operator may have
\* stored the high-value rule
PipelineConfigs ==
    { [raises |-> FALSE, rules |-> EmptyDict],
      [raises |-> FALSE,
       rules |-> [high_value_threshold |->
                      [enabled |-> TRUE, threshold |-> 10000 * AmountScale,
                       risk_weight |-> Frac(3, 10)]]] }

PipelineEnvironments ==
    { << [connected |-> FALSE], NoDraws >> }
    \cup { << graph, NoDraws >> :
             graph \in { g \in LiveGraphs :
                           /\ ~g.degree_raises /\ g.from_degree = 3
                           /\ ~g.neighbors_raises /\ g.neighbors = 3
                           /\ g.edges_between_neighbors = 3
                           /\ ~g.path_raises /\ g.path_vertices = 2
                           /\ ~g.velocity_raises /\ g.recent_count = 80
                           /\ ~g.component_raises /\ g.component_count = 0 } }

Init ==
    /\ now = 0
    /\ executions = << >>
    /\ responses = << >>
    /\ uuids = 0
    /\ results_table = << >>
    /\ call = NoCall

Tick ==
    /\ now < MaxTime
    /\ now' = now + 1
    /\ UNCHANGED << executions, responses, uuids, results_table, call >>

\* POST /analyze
Submit ==
    /\ Len(responses) < MaxSubmits
    /\ uuids < Len(UuidNames)
    /\ \E body \in RequestBodies :
         LET context == [aws_request_id |-> << "request", Len(responses) + 1 >>]
             out == handle_analyze_request([body |-> body], context,
                                           UuidNames[uuids + 1], now)
         IN  /\ responses' = Append(responses,
                                    [request |-> body, time |-> now,
                                     response |-> out.response])
             /\ executions' = executions \o out.started
             /\ uuids' = IF Get(body, "transaction", EmptyDict) = EmptyDict
                         THEN uuids + 1 ELSE uuids
    /\ UNCHANGED << now, results_table, call >>

Running(i, state) ==
    /\ executions[i].status = "RUNNING"
    /\ executions[i].state = state

\* DataIngestionTask returns; the execution enters ParallelAnalysis, which
\* starts both branches on the state's input
DataIngestionTaskCompletes(i) ==
    /\ Running(i, "DataIngestionTask")
    /\ \E env \in PipelineIngestionEnvs :
         LET e == executions[i]
             response == data_ingestion_handler(e.data, Context, env, now)
             data == Put(e.data, "data_ingestion_result", TaskOutput(response))
         IN  executions' =
                 [executions EXCEPT ![i] =
                     [e EXCEPT !.data = data,
                               !.state = "ParallelAnalysis",
                               !.r3 = "running", !.arsm = "running",
                               !.r3_event = data, !.arsm_event = data,
                               !.invoked.r3_engine = @ + 1,
                               !.invoked.arsm = @ + 1]]
    /\ UNCHANGED << now, responses, uuids, results_table, call >>

\* the Lambda runs into its timeout (lambda_construct.py); no Catch, no Retry
DataIngestionTaskTimesOut(i) ==
    /\ Running(i, "DataIngestionTask")
    /\ executions' =
           [executions EXCEPT ![i] = fail_execution(executions[i], "Lambda.TimedOut")]
    /\ UNCHANGED << now, responses, uuids, results_table, call >>

R3EngineTaskCompletes(i) ==
    /\ Running(i, "ParallelAnalysis")
    /\ executions[i].r3 = "running"
    /\ \E config \in PipelineConfigs :
         LET e == executions[i]
             response == r3_handler(e.r3_event, Context, config)
         IN  executions' =
                 [executions EXCEPT ![i] =
                     [e EXCEPT !.r3 = "succeeded",
                               !.r3_output =
                                   Put(e.r3_event, "r3_result", TaskOutput(response)),
                               !.finished = Append(@, "r3_engine")]]
    /\ UNCHANGED << now, responses, uuids, results_table, call >>

R3EngineTaskTimesOut(i) ==
    /\ Running(i, "ParallelAnalysis")
    /\ executions[i].r3 = "running"
    /\ executions' =
           [executions EXCEPT ![i] =
               fail_execution([executions[i] EXCEPT !.r3 = "timed_out"],
                              "Lambda.TimedOut")]
    /\ UNCHANGED << now, responses, uuids, results_table, call >>

ARSMTaskCompletes(i) ==
    /\ Running(i, "ParallelAnalysis")
    /\ executions[i].arsm = "running"
    /\ \E env \in PipelineEnvironments :
         LET e == executions[i]
             response == arsm_handler(e.arsm_event, Context, env[1], env[2])
         IN  executions' =
                 [executions EXCEPT ![i] =
                     [e EXCEPT !.arsm = "succeeded",
                               !.arsm_output =
                                   Put(e.arsm_event, "arsm_result", TaskOutput(response)),
                               !.graph_unavailable = ~connect_to_neptune(env[1]),
                               !.finished = Append(@, "arsm")]]
    /\ UNCHANGED << now, responses, uuids, results_table, call >>

ARSMTaskTimesOut(i) ==
    /\ Running(i, "ParallelAnalysis")
    /\ executions[i].arsm = "running"
    /\ executions' =
           [executions EXCEPT ![i] =
               fail_execution([executions[i] EXCEPT !.arsm = "timed_out"],
                              "Lambda.TimedOut")]
    /\ UNCHANGED << now, responses, uuids, results_table, call >>

\* the output of the Parallel state is the array of its branches' outputs;
\* it is the input of TADXTask
ParallelAnalysisCompletes(i) ==
    /\ Running(i, "ParallelAnalysis")
    /\ ParallelAnalysisDone(executions[i])
    /\ executions' =
           [executions EXCEPT ![i] =
               [executions[i] EXCEPT
                   !.data = JsonArray(<< executions[i].r3_output,
                                         executions[i].arsm_output >>),
                   !.state = "TADXTask",
                   !.invoked.tad_x = @ + 1]]
    /\ UNCHANGED << now, responses, uuids, results_table, call >>

\* TADXTask returns; its result_path "$.tad_x_result" names a field, which
\* an array input cannot take; otherwise ProcessingComplete succeeds
TADXTaskCompletes(i) ==
    /\ Running(i, "TADXTask")
    /\ \E s3 \in S3Outcomes, probability \in Probabilities :
         LET e == executions[i]
             out == tad_x_handler(e.data, Context, s3, probability, results_table)
         IN  /\ results_table' = out.table
             /\ executions' =
                    [executions EXCEPT ![i] =
                        IF is_list(e.data)
                        THEN fail_execution(e, "States.ResultPathMatchFailure")
                        ELSE [e EXCEPT
                                 !.data = Put(e.data, "tad_x_result",
                                              TaskOutput(out.response)),
                                 !.state = "ProcessingComplete",
                                 !.status = "SUCCEEDED"]]
    /\ UNCHANGED << now, responses, uuids, call >>

TADXTaskTimesOut(i) ==
    /\ Running(i, "TADXTask")
    /\ executions' =
           [executions EXCEPT ![i] = fail_execution(executions[i], "Lambda.TimedOut")]
    /\ UNCHANGED << now, responses, uuids, results_table, call >>

\* the state machine's own timeout ends a running execution as TIMED_OUT
ExecutionTimesOut(i) ==
    /\ executions[i].status = "RUNNING"
    /\ executions' =
           [executions EXCEPT ![i] =
               [executions[i] EXCEPT !.status = "TIMED_OUT",
                                     !.error = "States.Timeout",
                                     !.r3 = abort(@), !.arsm = abort(@)]]
    /\ UNCHANGED << now, responses, uuids, results_table, call >>

Next ==
    \/ Tick
    \/ Submit
    \/ \E i \in 1..Len(executions) : DataIngestionTaskCompletes(i)
    \/ \E i \in 1..Len(executions) : DataIngestionTaskTimesOut(i)
    \/ \E i \in 1..Len(executions) : R3EngineTaskCompletes(i)
    \/ \E i \in 1..Len(executions) : R3EngineTaskTimesOut(i)
    \/ \E i \in 1..Len(executions) : ARSMTaskCompletes(i)
    \/ \E i \in 1..Len(executions) : ARSMTaskTimesOut(i)
    \/ \E i \in 1..Len(executions) : ParallelAnalysisCompletes(i)
    \/ \E i \in 1..Len(executions) : TADXTaskCompletes(i)
    \/ \E i \in 1..Len(executions) : TADXTaskTimesOut(i)
    \/ \E i \in 1..Len(executions) : ExecutionTimesOut(i)

Spec == Init /\ [][Next]_vars

\* the queries of GET /status: none, a transaction id that was never
\* submitted, and the transaction id and the ARN of each execution
StatusQueries ==
    { EmptyDict, [transaction_id |-> "tx-9"] }
    \cup { [transaction_id |-> executions[i].input.transaction.id] :
             i \in 1..Len(executions) }
    \cup { [execution_arn |-> execution_arn(executions[i].name)] :
             i \in 1..Len(executions) }

\* GET /status; the executions as they are when the query is answered are
\* kept with the response
StatusRequest ==
    /\ \E query \in StatusQueries :
         call' = [stage |-> "status",
                  query |-> query,
                  executions |-> executions,
                  response |-> handle_status_request([queryStringParameters |-> query],
                                                     Context, executions, now)]
    /\ UNCHANGED << now, executions, responses, uuids, results_table >>

\* One execution on its own: the execution a request has just started, at any
\* second, the steps of the state machine from there, and status queries
ExecutionInit ==
    /\ now \in 0..MaxTime
    /\ \E tx \in { t \in PipelineTransactions : "id" \in DOMAIN t } :
         executions =
             << new_execution(execution_name(tx.id, now),
                              [transaction |-> tx,
                               request_id |-> << "request", 1 >>,
                               timestamp |-> now]) >>
    /\ responses = << >>
    /\ uuids = 0
    /\ results_table = << >>
    /\ call = NoCall

ExecutionNext ==
    \/ Tick
    \/ StatusRequest
    \/ DataIngestionTaskCompletes(1)
    \/ DataIngestionTaskTimesOut(1)
    \/ R3EngineTaskCompletes(1)
    \/ R3EngineTaskTimesOut(1)
    \/ ARSMTaskCompletes(1)
    \/ ARSMTaskTimesOut(1)
    \/ ParallelAnalysisCompletes(1)
    \/ TADXTaskCompletes(1)
    \/ TADXTaskTimesOut(1)
    \/ ExecutionTimesOut(1)

SpecExecution == ExecutionInit /\ [][ExecutionNext]_vars

---------------------------------------------------------------------------
(* Claims about the pipeline (checked under Spec) *)

Execs == 1..Len(executions)
Requests == 1..Len(responses)

\* request k names a transaction id
NamesId(k) ==
    /\ "transaction" \in DOMAIN responses[k].request
    /\ "id" \in DOMAIN responses[k].request.transaction

Started(k) == responses[k].response.statusCode = 200

\* C1: two submits of the same transaction id return the same run identifier
\* and start at most one execution for that id.
C1_SameIdSameRun ==
    /\ \A j, k \in Requests :
         (NamesId(j) /\ NamesId(k)
            /\ responses[j].request.transaction.id = responses[k].request.transaction.id)
         => /\ Started(j) /\ Started(k)
            /\ responses[j].response.body.execution_arn
                 = responses[k].response.body.execution_arn
    /\ \A i, j \in Execs :
         executions[i].input.transaction.id = executions[j].input.transaction.id
         => i = j

FusionStarted(e) == e.invoked.tad_x > 0

\* C2: in every run R3 and ARSM are started together on the same transaction
\* (the one submitted), and TAD-X is not started unless both have finished.
C2_FanOutFanIn ==
    \A i \in Execs :
        LET e == executions[i]
        IN  /\ (e.r3 = "idle") <=> (e.arsm = "idle")
            /\ e.invoked.r3_engine = e.invoked.arsm
            /\ e.r3 # "idle" =>
                 /\ e.r3_event = e.arsm_event
                 /\ e.r3_event.transaction = e.input.transaction
            /\ FusionStarted(e) => e.r3 = "succeeded" /\ e.arsm = "succeeded"

\* fusion has started in a run whose graph stage finished before its
\* compliance stage
C2_Witness ==
    \E i \in Execs :
        /\ FusionStarted(executions[i])
        /\ executions[i].finished = << "arsm", "r3_engine" >>

ArsmBody(e) == e.arsm_output.arsm_result.Payload.body

\* C3: a run whose graph store was unavailable has a graph result of status
\* DEGRADED and does not fail at fusion (it completes with a FusionResult).
C3_GraphUnavailableStillCompletes ==
    \A i \in Execs :
        LET e == executions[i]
        IN  e.graph_unavailable =>
              /\ Get(ArsmBody(e), "status", "none") = "DEGRADED"
              /\ FusionStarted(e) /\ e.status # "RUNNING" =>
                   /\ e.status = "SUCCEEDED"
                   /\ "tad_x_result" \in DOMAIN e.data

\* C4: a compliance or graph stage that runs into its timeout never puts the
\* run in a failed state.
C4_StageTimeoutNeverFails ==
    \A i \in Execs :
        (executions[i].r3 = "timed_out" \/ executions[i].arsm = "timed_out")
        => executions[i].status \in { "RUNNING", "SUCCEEDED" }

\* C5: expiry of the overall deadline never ends the run without a score.
C5_DeadlineNeverEndsRun ==
    \A i \in Execs :
        executions[i].error = "States.Timeout"
        => executions[i].status \in { "RUNNING", "SUCCEEDED" }

\* a missing or empty address, an address under 26 characters, or amount <= 0
Malformed(tx) ==
    \/ Get(tx, "from_address", EmptyStr) = EmptyStr
    \/ Get(tx, "to_address", EmptyStr) = EmptyStr
    \/ Len(tx.from_address) < 26
    \/ Len(tx.to_address) < 26
    \/ Get(tx, "amount", 0) <= 0

\* C6: a malformed transaction starts no execution, no stage runs on it, and
\* the response to its submission is an error.
C6_MalformedRejected ==
    /\ \A k \in Requests :
         ("transaction" \in DOMAIN responses[k].request
            /\ Malformed(responses[k].request.transaction))
         => ~Started(k)
    /\ \A i \in Execs : ~Malformed(executions[i].input.transaction)

---------------------------------------------------------------------------
(* Claims about the compliance score (checked under SpecStages) *)

R3Flags == call.result.body.risk_flags
R3Score == call.result.body.r3_risk_score
R3TotalWeight == SumSeq(flag_weights(R3Flags))
R3MinWeight ==
    CHOOSE w \in { R3Flags[i].risk_weight : i \in 1..Len(R3Flags) } :
        \A i \in 1..Len(R3Flags) : w <= R3Flags[i].risk_weight
R3MaxWeight ==
    CHOOSE w \in { R3Flags[i].risk_weight : i \in 1..Len(R3Flags) } :
        \A i \in 1..Len(R3Flags) : w >= R3Flags[i].risk_weight
OnlyOfacAtOne ==
    /\ Len(R3Flags) = 1
    /\ R3Flags[1].rule = "ofac_sanctions"
    /\ R3Flags[1].risk_weight = Scale

ARSMScore == call.result.body.arsm_risk_score
FinalScore == call.result.body.final_risk_score
InUnitInterval(x) == 0 <= x /\ x <= Scale

\* C7 as stated: for every transaction, ruleset and graph outcome, the
\* compliance score, the graph score and the final score each lie in [0,1].
C7_ScoresInUnitInterval ==
    /\ R3Returned => InUnitInterval(R3Score)
    /\ ARSMReturned => InUnitInterval(ARSMScore)
    /\ TADXReturned => InUnitInterval(FinalScore)

\* C8 as stated: the compliance score is the mean of the triggered weights
\* (score * count = sum), 0 without flags, and 1.0 for ofac_sanctions alone
\* at weight 1.0.
C8_ScoreIsMean ==
    R3Returned =>
        /\ R3Flags = << >> => R3Score = 0
        /\ R3Flags # << >> => R3Score * Len(R3Flags) = R3TotalWeight
        /\ OnlyOfacAtOne => R3Score = Scale

\* C8 amended: the compliance score is the mean of the triggered weights
\* capped at 1.0, 0 without flags, and exactly 1.0 for ofac_sanctions alone
\* at weight 1.0.
C8_ScoreIsCappedMean ==
    R3Returned =>
        /\ R3Flags = << >> => R3Score = 0
        /\ R3Flags # << >> =>
             IF R3TotalWeight <= Len(R3Flags) * Scale
             THEN R3Score * Len(R3Flags) = R3TotalWeight
             ELSE R3Score = Scale
        /\ OnlyOfacAtOne => R3Score = Scale

\* Two flags whose mean weight exceeds 1.0: the cap applies.
C8_Witness ==
    /\ R3Returned
    /\ Len(R3Flags) = 2
    /\ R3TotalWeight > 2 * Scale
    /\ R3Score = Scale

\* C9 as stated: the compliance score is 0 if and only if no rule triggers.
C9_ZeroIffNoFlag == R3Returned => (R3Score = 0 <=> R3Flags = << >>)

\* C9 amended: the compliance score is 0 if and only if no rule triggers or
\* the triggered weights sum to 0; under the default ruleset it is 0 if and
\* only if no rule triggers.
C9_ZeroIffNoFlagOrZeroSum ==
    R3Returned =>
        /\ R3Score = 0 <=> (R3Flags = << >> \/ R3TotalWeight = 0)
        /\ call.config.raises => (R3Score = 0 <=> R3Flags = << >>)

\* A flag was raised at weight 0 and the score is 0.
C9_Witness ==
    /\ R3Returned
    /\ R3Flags # << >>
    /\ R3Score = 0

\* C10 as stated: the compliance score is at least the weight of every
\* triggered flag.
C10_NoDilution ==
    R3Returned => \A i \in 1..Len(R3Flags) : R3Score >= R3Flags[i].risk_weight

\* C10 amended: the compliance score lies between the smallest triggered
\* weight (capped at 1.0) and the largest triggered weight; under the default
\* ruleset ofac_sanctions (1.0) with high_value_threshold (0.3) scores 0.65.
C10_BetweenMinAndMax ==
    (R3Returned /\ R3Flags # << >>) =>
        /\ R3Score >= Min2(R3MinWeight, Scale)
        /\ R3Score <= R3MaxWeight
        /\ ( /\ call.config.raises
             /\ Len(R3Flags) = 2
             /\ R3Flags[1].rule = "ofac_sanctions"
             /\ R3Flags[2].rule = "high_value_threshold" ) => R3Score = Frac(13, 20)

\* Default ruleset, sanctioned address and amount above the threshold: the
\* score 0.65 is below the ofac_sanctions weight.
C10_Witness ==
    /\ R3Returned
    /\ call.config.raises
    /\ Len(R3Flags) = 2
    /\ R3Flags[1].risk_weight = Scale
    /\ R3Flags[2].risk_weight = Frac(3, 10)
    /\ R3Score = Frac(13, 20)

---------------------------------------------------------------------------
(* Claims about the rule engine's failures (checked under SpecStages) *)

\* C11: the rule engine never returns an error result, whatever the
\* transaction and the ruleset the configuration source returned.
C11_R3NeverReturnsError ==
    call.stage = "r3" => call.result.statusCode = 200

\* the built-in default ruleset as the specification documents it
DocumentedDefaultRuleset ==
    [ofac_sanctions |-> [enabled |-> TRUE, risk_weight |-> Scale],
     high_value_threshold |->
         [enabled |-> TRUE, threshold |-> 10000 * AmountScale,
          risk_weight |-> Frac(3, 10)],
     mixer_detection |-> [enabled |-> TRUE, risk_weight |-> Frac(8, 10)],
     velocity_check |-> [enabled |-> TRUE, risk_weight |-> Frac(4, 10)]]

\* the lookup raised, or it returned no ruleset
SourceUnavailable ==
    IF call.config.raises THEN TRUE ELSE DOMAIN call.config.rules = {}

\* C12: when the configuration source is unavailable (the lookup raises or
\* returns no ruleset) the flags are those of the default ruleset.
C12_UnavailableUsesDefaults ==
    (call.stage = "r3" /\ SourceUnavailable /\ is_number(call.event.transaction))
    => /\ call.result.statusCode = 200
       /\ call.result.body.risk_flags
            = apply_compliance_rules(call.event.transaction,
                                     DocumentedDefaultRuleset).value

---------------------------------------------------------------------------
(* Claims about the graph analyzer (checked under SpecStages) *)

ARSMMetrics == call.result.body.risk_metrics

\* 100 times the weighted sum of the claim: 0.30 centrality, 0.20 (1 -
\* clustering), 0.25 velocity, 0.15 path risk, 0.10 min(component_size/1000, 1)
WeightedMetrics(m) ==
    30 * m.centrality + 20 * (Scale - m.clustering) + 25 * m.velocity
    + 15 * (IF m.path_length <= 2 \/ m.path_length >= 8 THEN Scale ELSE Frac(3, 10))
    + 10 * (IF m.component_size >= 1000 THEN Scale
            ELSE (m.component_size * Scale) \div 1000)

\* C13: the graph score is the weighted sum of the five metrics, capped at 1
\* (to the precision of one unit of 1/Scale).
C13_GraphScoreFormula ==
    ARSMReturned =>
        IF WeightedMetrics(ARSMMetrics) >= 100 * Scale
        THEN ARSMScore = Scale
        ELSE /\ 100 * ARSMScore <= WeightedMetrics(ARSMMetrics)
             /\ WeightedMetrics(ARSMMetrics) < 100 * ARSMScore + 100

\* clustering 1, velocity 0, centrality 0, path_length 5, component_size 0
\* scored 0.045
C13_Witness ==
    /\ ARSMReturned
    /\ ARSMMetrics = [centrality |-> 0, clustering |-> Scale, path_length |-> 5,
                      velocity |-> 0, component_size |-> 0]
    /\ ARSMScore = Frac(45, 1000)

\* C14: with the graph store unreachable, a second analysis of the same
\* transaction returns the same GraphMetrics and the same graph score.
C14_FallbackDeterministic ==
    (call.stage = "arsm" /\ "repeat" \in DOMAIN call
       /\ ~connect_to_neptune(call.graph))
    => call.repeat.result = call.result

\* C15: every GraphMetrics record the graph stage returns has centrality,
\* clustering and velocity between 0 and 1, a path length of at least 0 and
\* a component size between 0 and 10000.
C15_MetricsInRange ==
    ARSMReturned =>
        /\ InUnitInterval(ARSMMetrics.centrality)
        /\ InUnitInterval(ARSMMetrics.clustering)
        /\ InUnitInterval(ARSMMetrics.velocity)
        /\ ARSMMetrics.path_length >= 0
        /\ ARSMMetrics.component_size >= 0
        /\ ARSMMetrics.component_size <= 10000

\* C16: the graph stage never returns an error: its result always carries a
\* GraphMetrics record with the five fields and a score, and a result
\* computed without the live graph is reported DEGRADED.
C16_GraphStageNeverFails ==
    call.stage = "arsm" =>
        /\ call.result.statusCode = 200
        /\ DOMAIN ARSMMetrics
             = {"centrality", "clustering", "path_length", "velocity", "component_size"}
        /\ "arsm_risk_score" \in DOMAIN call.result.body
        /\ (call.graph \notin LiveGraphs
              => Get(call.result.body, "status", "none") = "DEGRADED")

----------------------------------------------------------------------------
(* Claims about the fusion stage (checked under SpecStages) *)

FusionBody == call.result.body

\* 10 * final lies within one unit of min(3c + 3g + 4p, 10)
WeightedFinal(final, c, g, p) ==
    LET weighted == Min2(3 * c + 3 * g + 4 * p, 10 * Scale)
    IN  10 * final <= weighted /\ weighted < 10 * final + 10

\* C17: for inputs in [0, 1] the final score is
\* 0.3 * compliance + 0.3 * graph + 0.4 * probability, clamped to [0, 1];
\* three inputs of 1 give 1 and three inputs of 0 give 0.
C17_FinalScoreFormula ==
    /\ call.stage = "final_risk_score"
         => /\ WeightedFinal(call.result, call.r3_score, call.arsm_score, call.ml_score)
            /\ InUnitInterval(call.result)
            /\ (call.r3_score = Scale /\ call.arsm_score = Scale /\ call.ml_score = Scale
                  => call.result = Scale)
            /\ (call.r3_score = 0 /\ call.arsm_score = 0 /\ call.ml_score = 0
                  => call.result = 0)
    /\ (/\ TADXReturned
        /\ InUnitInterval(FusionBody.component_scores.r3_score)
        /\ InUnitInterval(FusionBody.component_scores.arsm_score)
        /\ InUnitInterval(FusionBody.component_scores.ml_score))
         => /\ WeightedFinal(FinalScore,
                             FusionBody.component_scores.r3_score,
                             FusionBody.component_scores.arsm_score,
                             FusionBody.component_scores.ml_score)
            /\ InUnitInterval(FinalScore)

C17_Witness ==
    /\ call.stage = "final_risk_score"
    /\ call.r3_score = Scale
    /\ call.arsm_score = Scale
    /\ call.ml_score = Frac(1, 2)
    /\ call.result = Frac(8, 10)

CategoryRank(category) ==
    CASE category = "MINIMAL" -> 0
      [] category = "LOW" -> 1
      [] category = "MEDIUM" -> 2
      [] category = "HIGH" -> 3
      [] category = "CRITICAL" -> 4

\* C18: a score of at least 0.8 is CRITICAL, one in [0.6, 0.8) is HIGH, one
\* in [0.4, 0.6) is MEDIUM, one in [0.2, 0.4) is LOW and one below 0.2 is
\* MINIMAL; every score gets exactly one of the five categories, and a
\* higher score never gets a lower category.
C18_CategoryThresholds ==
    call.stage = "risk_category" =>
        /\ call.result \in { "MINIMAL", "LOW", "MEDIUM", "HIGH", "CRITICAL" }
        /\ (call.result = "CRITICAL") = (call.risk_score >= Frac(8, 10))
        /\ (call.result = "HIGH")
             = (Frac(6, 10) <= call.risk_score /\ call.risk_score < Frac(8, 10))
        /\ (call.result = "MEDIUM")
             = (Frac(4, 10) <= call.risk_score /\ call.risk_score < Frac(6, 10))
        /\ (call.result = "LOW")
             = (Frac(2, 10) <= call.risk_score /\ call.risk_score < Frac(4, 10))
        /\ (call.result = "MINIMAL") = (call.risk_score < Frac(2, 10))
        /\ (call.other_score >= call.risk_score
              => CategoryRank(call.other_result) >= CategoryRank(call.result))

C18_Witness ==
    /\ call.stage = "risk_category"
    /\ call.risk_score = Frac(8, 10) - 1
    /\ call.result = "HIGH"
    /\ call.other_score = Frac(8, 10)
    /\ call.other_result = "CRITICAL"


\* the loaded classifier raises while predicting
ClassifierFails ==
    /\ call.stage = "tad_x"
    /\ is_number(call.event.transaction)
    /\ call.s3.loaded
    /\ call.s3.predict_raises

\* C19: when the classifier fails to predict, the fusion stage returns a
\* result, not an error, whose probability is the mean of the compliance
\* score and the graph score.
C19_PredictorFailureUsesMean ==
    ClassifierFails =>
        /\ call.result.statusCode = 200
        /\ 2 * FusionBody.fraud_probability
             \in { FusionBody.component_scores.r3_score
                     + FusionBody.component_scores.arsm_score - 1,
                   FusionBody.component_scores.r3_score
                     + FusionBody.component_scores.arsm_score }
        /\ FusionBody.component_scores.ml_score = FusionBody.fraud_probability
        /\ { "final_prediction", "final_risk_score", "risk_category", "explanations" }
             \subseteq DOMAIN FusionBody

C19_Witness ==
    /\ ClassifierFails
    /\ call.result.statusCode = 200
    /\ FusionBody.component_scores.r3_score = Scale
    /\ FusionBody.component_scores.arsm_score = Frac(296, 1000)
    /\ call.probability = 0
    /\ FusionBody.fraud_probability = Frac(648, 1000)
    /\ FusionBody.final_prediction = 1


DocumentedFeatureOrder ==
    << "amount", "r3_risk_score", "arsm_risk_score", "hour_of_day",
       "centrality", "clustering", "velocity", "component_size" >>

\* C20: whichever model is loaded, the vector handed to the classifier has
\* exactly the eight features amount, r3_risk_score, arsm_risk_score,
\* hour_of_day, centrality, clustering, velocity, component_size, in that
\* order.
C20_FeatureVectorContract ==
    TADXReturned =>
        LET model == load_ml_model(call.s3)
            vector == feature_array(model, FusionBody.model_features)
        IN  /\ Len(vector) = Len(DocumentedFeatureOrder)
            /\ \A i \in 1..Len(vector) :
                 /\ model.feature_names[i] = DocumentedFeatureOrder[i]
                 /\ vector[i] = FusionBody.model_features[DocumentedFeatureOrder[i]]


\* the explanations of a direct call or of a fusion result
HasExplanations == call.stage = "explanations" \/ TADXReturned

Explanations ==
    IF call.stage = "explanations" THEN call.result ELSE FusionBody.explanations

AbsTotal(ex) == SumSeq([i \in 1..Len(ex) |-> Abs(ex[i].value)])

\* C21: each explanation's importance is |value| divided by the sum of
\* |value| over all features, and 0 when that sum is 0; its impact is
\* "positive" exactly when value > 0.5, and "negative" otherwise.
C21_ImportanceAndImpact ==
    HasExplanations =>
        \A i \in 1..Len(Explanations) :
            LET e == Explanations[i]
            IN  /\ IF AbsTotal(Explanations) = 0
                   THEN e.importance.num = 0
                   ELSE /\ e.importance.num = Abs(e.value)
                        /\ e.importance.den = AbsTotal(Explanations)
                /\ e.impact \in { "positive", "negative" }
                /\ (e.impact = "positive") = (e.value > Frac(1, 2))

C21_Witness ==
    /\ call.stage = "explanations"
    /\ call.features.amount = Frac(1, 2)
    /\ call.features.r3_risk_score = Frac(1, 2) + 1
    /\ call.features.centrality = Frac(-2, 10)
    /\ \E i, j, k \in 1..Len(call.result) :
         /\ call.result[i].feature = "amount"
         /\ call.result[i].impact = "negative"
         /\ call.result[j].feature = "r3_risk_score"
         /\ call.result[j].impact = "positive"
         /\ call.result[k].feature = "centrality"
         /\ call.result[k].importance
              = [num |-> Frac(2, 10), den |-> Frac(12, 10) + 1]

\* the absolute values of the explained features are pairwise distinct
PairwiseDistinct(ex) ==
    \A i, j \in 1..Len(ex) : i # j => Abs(ex[i].value) # Abs(ex[j].value)

---------------------------------------------------------------------------
(* Claims about the run as a whole (checked under Spec) *)

TxId(e) == e.input.transaction.id

\* C23: every run invokes the fusion stage at most once and only after both
\* branches have finished, a run that succeeded has invoked it, and no
\* transaction has the fusion stage invoked for it a second time.
C23_FusionExactlyOnce ==
    /\ \A i \in Execs :
         LET e == executions[i]
         IN  /\ e.invoked.tad_x <= 1
             /\ FusionStarted(e) => e.finished \in { << "r3_engine", "arsm" >>,
                                                      << "arsm", "r3_engine" >> }
             /\ e.status = "SUCCEEDED" => e.invoked.tad_x = 1
    /\ \A i, j \in Execs :
         (i # j /\ TxId(executions[i]) = TxId(executions[j]))
         => ~(FusionStarted(executions[i]) /\ FusionStarted(executions[j]))


---------------------------------------------------------------------------
(* Claims about failed runs and status queries (checked under SpecExecution) *)

\* both analysis stages returned an error result instead of a score
BothStagesFailed(e) ==
    /\ e.r3 = "succeeded"
    /\ e.arsm = "succeeded"
    /\ e.r3_output.r3_result.Payload.statusCode = 500
    /\ e.arsm_output.arsm_result.Payload.statusCode = 500

\* the failure statuses of an execution
RunFailed(e) == e.status \in { "FAILED", "TIMED_OUT" }

\* the executions, as they were when the last status query was answered,
\* that the query names by transaction id or by ARN
NamedRuns ==
    { i \in 1..Len(call.executions) :
        \/ /\ "transaction_id" \in DOMAIN call.query
           /\ call.query.transaction_id = TxId(call.executions[i])
        \/ /\ "execution_arn" \in DOMAIN call.query
           /\ call.query.execution_arn = execution_arn(call.executions[i].name) }

\* C24: a run in which both analysis stages returned an error ends failed,
\* never successful, with an error recorded, and a status query naming the
\* ended run reports the failure and its error.
C24_BothFailedRunFails ==
    /\ \A i \in Execs :
         (BothStagesFailed(executions[i]) /\ executions[i].status # "RUNNING")
         => RunFailed(executions[i]) /\ executions[i].error # "none"
    /\ call.stage = "status" =>
         \A i \in NamedRuns :
             (BothStagesFailed(call.executions[i])
                /\ call.executions[i].status # "RUNNING")
             => /\ call.response.statusCode = 200
                /\ call.response.body.status \in { "FAILED", "TIMED_OUT" }
                /\ (call.executions[i].status = "FAILED"
                      => "error" \in DOMAIN call.response.body)

ReportsCompletion ==
    /\ call.response.statusCode = 200
    /\ call.response.body.status \in { "COMPLETED", "SUCCEEDED" }

FusionResultOf(e) == e.data.tad_x_result.Payload.body

\* C25: a status query that names a run reports that run's state; it reports
\* completion only for a run that has completed, with that run's score and
\* category; for an id never submitted or a run still running it never
\* reports completion.
C25_StatusReportsActualState ==
    (call.stage = "status" /\ call.query # EmptyDict) =>
        /\ ReportsCompletion =>
             \E i \in NamedRuns :
                 /\ call.executions[i].status = "SUCCEEDED"
                 /\ "transaction_id" \in DOMAIN call.query =>
                      /\ call.response.body.risk_score
                           = FusionResultOf(call.executions[i]).final_risk_score
                      /\ call.response.body.risk_category
                           = FusionResultOf(call.executions[i]).risk_category
        /\ \A i \in NamedRuns :
             "execution_arn" \in DOMAIN call.query =>
                 /\ call.response.statusCode = 200
                 /\ call.response.body.status = call.executions[i].status


---------------------------------------------------------------------------
(* Claims about the stored result (checked under SpecStages) *)

\* C26: whenever the fusion stage reports success, the result store holds
\* the FusionResult under the transaction id.
C26_SuccessImpliesStored ==
    TADXReturned =>
        /\ FusionBody.transaction_id \in DOMAIN results_table
        /\ results_table[FusionBody.transaction_id].risk_score = FinalScore
        /\ results_table[FusionBody.transaction_id].risk_category
             = FusionBody.risk_category


---------------------------------------------------------------------------
(* Claims about the join and the order of states (checked under SpecExecution) *)

\* C27: what the fusion stage is given holds the compliance branch's result
\* under r3_result and the graph branch's result under arsm_result, in
\* whichever order the branches finished.
C27_JoinDeliversBothResults ==
    \A i \in Execs :
        LET e == executions[i]
        IN  FusionStarted(e) =>
              /\ { "r3_result", "arsm_result" } \subseteq DOMAIN e.data
              /\ e.data.r3_result = e.r3_output.r3_result
              /\ e.data.arsm_result = e.arsm_output.arsm_result


\* the place of a state of the state machine in the documented order
\* (ParallelAnalysis covers ANALYZING and, once both branches are done, JOINED)
StateRank(state) ==
    CASE state = "DataIngestionTask" -> 1
      [] state = "ParallelAnalysis" -> 2
      [] state = "TADXTask" -> 3
      [] state = "ProcessingComplete" -> 4

\* C28: every step of a run keeps its state or moves it to the next one in
\* the documented order; a run that has ended never changes again; and a
\* run fails only when both analysis stages have returned an error, never
\* from a stage-local error such as one stage running out of time.
C28_OrderedStatesAndFatalOnly ==
    [][\A i \in 1..Len(executions) :
         LET e == executions[i]
             f == executions'[i]
         IN  /\ StateRank(f.state) \in { StateRank(e.state), StateRank(e.state) + 1 }
             /\ e.status # "RUNNING" => f = e
             /\ (e.status = "RUNNING" /\ f.status = "FAILED") => BothStagesFailed(e)]_vars


---------------------------------------------------------------------------
(* Claims about rule evaluation (checked under SpecStages) *)

\* the ruleset the compliance stage evaluated
R3Rules == load_compliance_rules(call.config)
R3Transaction == Get(call.event, "transaction", EmptyDict)

PresentAndEnabled(rule) ==
    /\ rule \in DOMAIN R3Rules
    /\ "enabled" \in DOMAIN R3Rules[rule]
    /\ R3Rules[rule].enabled

EitherAddress ==
    { Get(R3Transaction, "from_address", EmptyStr),
      Get(R3Transaction, "to_address", EmptyStr) }

RuleCondition(rule) ==
    CASE rule = "ofac_sanctions" ->
           \E a \in EitherAddress : a \in { ADDR_GENESIS, ADDR_P2SH }
      [] rule = "high_value_threshold" ->
           Get(R3Transaction, "amount", 0) > R3Rules[rule].threshold
      [] rule = "mixer_detection" ->
           \E a \in EitherAddress :
               \E pattern \in { << "m", "i", "x" >>, << "t", "u", "m", "b", "l" >>,
                                << "t", "o", "r", "n", "a", "d", "o" >> } :
                   Contains(pattern, lower(a))

\* C29: the returned flags name exactly the rules among ofac_sanctions,
\* high_value_threshold and mixer_detection that are present, enabled and
\* whose condition holds (amount strictly above the threshold), each once and
\* with the configured weight; no other rule, velocity_check included, is
\* ever flagged.
C29_FlagsAreTheRulesThatHold ==
    R3Returned =>
        /\ { R3Flags[i].rule : i \in 1..Len(R3Flags) }
             = { rule \in { "ofac_sanctions", "high_value_threshold", "mixer_detection" } :
                   PresentAndEnabled(rule) /\ RuleCondition(rule) }
        /\ \A i, j \in 1..Len(R3Flags) : R3Flags[i].rule = R3Flags[j].rule => i = j
        /\ \A i \in 1..Len(R3Flags) :
             R3Flags[i].risk_weight = R3Rules[R3Flags[i].rule].risk_weight

\* a mixer address in capitals and an amount equal to the threshold under
\* the default ruleset, which enables velocity_check: only the mixer is flagged
C29_Witness ==
    /\ R3Returned
    /\ call.config.raises
    /\ Get(R3Transaction, "from_address", EmptyStr) = ADDR_MIXER
    /\ Get(R3Transaction, "to_address", EmptyStr) = ADDR_CLEAN
    /\ Get(R3Transaction, "amount", 0) = 10000 * AmountScale
    /\ Len(R3Flags) = 1
    /\ R3Flags[1].rule = "mixer_detection"
    /\ R3Flags[1].risk_weight = Frac(8, 10)


---------------------------------------------------------------------------
(* Claims about stage errors inside a run (checked under SpecExecution) *)

\* the responses the stages' tasks have put into the execution so far
HasIngestionResponse(e) == "data_ingestion_result" \in DOMAIN e.r3_event
IngestionResponse(e) == e.r3_event.data_ingestion_result.Payload

StageResponses(e) ==
    (IF HasIngestionResponse(e) THEN { IngestionResponse(e) } ELSE { })
    \cup (IF e.r3 = "succeeded" THEN { e.r3_output.r3_result.Payload } ELSE { })
    \cup (IF e.arsm = "succeeded" THEN { e.arsm_output.arsm_result.Payload } ELSE { })

\* C30: a stage whose handler hits an internal exception returns statusCode
\* 500 with an error body and its task succeeds: the run does not fail
\* because of it.  After an ingestion error both analysis stages run on the
\* transaction as submitted, and after analysis errors the run goes on to
\* the fusion stage.
C30_StageErrorsDoNotFailTasks ==
    \A i \in Execs :
        LET e == executions[i]
        IN  /\ \A r \in StageResponses(e) :
                 /\ r.statusCode \in { 200, 500 }
                 /\ r.statusCode = 500 => DOMAIN r.body = { "error" }
            /\ e.status = "FAILED"
                 => e.error \in { "Lambda.TimedOut", "States.ResultPathMatchFailure" }
            /\ (HasIngestionResponse(e) /\ IngestionResponse(e).statusCode = 500)
                 => /\ e.invoked.r3_engine = 1
                    /\ e.invoked.arsm = 1
                    /\ e.r3_event.transaction = e.input.transaction
                    /\ e.arsm_event.transaction = e.input.transaction
            /\ (e.status = "RUNNING" /\ e.state = "ParallelAnalysis"
                  /\ e.r3 = "succeeded" /\ e.arsm = "succeeded")
                 => ENABLED ParallelAnalysisCompletes(i)

\* ingestion and both analysis stages returned an error and the fusion stage
\* has been invoked
C30_Witness ==
    \E i \in Execs :
        /\ BothStagesFailed(executions[i])
        /\ IngestionResponse(executions[i]).statusCode = 500
        /\ executions[i].state = "TADXTask"
        /\ executions[i].status = "RUNNING"
        /\ FusionStarted(executions[i])

=============================================================================
